---- MODULE Spec2Model ----
(***************************************************************************)
(* A model of src/event_tracker.js: the universal event tracker (an IIFE   *)
(* that attaches one listener per event category to document/window and   *)
(* writes a structured record to the console for each occurrence).         *)
(*                                                                         *)
(* The console is the variable `records` (the sink), in emission order.    *)
(* Time is logical: Tick advances it, and a pending timer fires when its   *)
(* remaining delay is 0, before time advances any further.                 *)
(***************************************************************************)
EXTENDS Integers, Sequences, FiniteSets, TLC

(* ------------------------------ bounds --------------------------------- *)
\* number of DOM events and public calls dispatched in one run
MaxEvents == 4
\* granularity of the logical clock
TickStep == 100

(* ------------------------- program constants --------------------------- *)
InputDelay == 500
ScrollDelay == 200
MouseDelay == 1000
ScrollThreshold == 10
MouseThreshold == 100
MASKED == "***MASKED***"
NA == "N/A"

VARIABLES
    readyState,     \* document.readyState
    dclFired,       \* DOMContentLoaded has been dispatched
    scriptRun,      \* the IIFE has been evaluated
    dclListener,    \* initializeTracker is registered for DOMContentLoaded
    initCount,      \* number of times initializeTracker has run
    exported,       \* window.EventTracker has been assigned
    records,        \* the console sink: emitted records, in order
    uncaught,       \* exceptions that escaped a listener
    nEvents,        \* events dispatched so far (run budget)
    loadState,      \* history: document.readyState when the IIFE was evaluated
    eventLog,       \* history: the events dispatched to the synchronous listeners
    value,          \* the value property of the form fields
    timers,         \* the browser's pending timeouts: handle, owner, delay left, closed-over event
    inputTimeout,   \* setupInputTracking: the handle held in inputTimeout (0: undefined)
    sinceInput,     \* history: time since the last input event (capped)
    owedSince,      \* history: per field, time since its last unrecorded input event, or -1
    burst,          \* history: the first input event's field, whether all input events so far
                    \* hit that field less than InputDelay apart, and the value at the last one
    scrollHeight,   \* documentElement.scrollHeight - window.innerHeight
    scrollTop,      \* window.pageYOffset
    scrollTimeout,  \* setupScrollTracking: the handle held in scrollTimeout (0: undefined)
    sinceScroll,    \* history: time since the last scroll event (capped)
    lastScrollPosition, \* setupScrollTracking: the closure's lastScrollPosition
    mouseTimeout,   \* setupMouseTracking: the handle held in mouseTimeout (0: undefined)
    lastMousePosition,  \* setupMouseTracking: the closure's lastMousePosition
    sinceMouse,     \* history: time since the last mousemove event (capped)
    lastMouseEvent, \* history: the client position of the last mousemove event
    theme,          \* localStorage.getItem('theme') ("null": no such item)
    darkMode,       \* document.body.classList.contains('dark-mode')
    checked,        \* themeToggle.checked
    themeLog        \* history: class, checkbox and stored theme after the load and after
                    \* each change of the toggle

lifecycleVars == <<readyState, dclFired, scriptRun, dclListener, initCount, exported, loadState>>
inputVars == <<value, inputTimeout, sinceInput, owedSince, burst>>
scrollVars == <<scrollHeight, scrollTop, scrollTimeout, lastScrollPosition, sinceScroll>>
mouseVars == <<mouseTimeout, lastMousePosition, sinceMouse, lastMouseEvent>>
timerVars == <<timers, inputVars, scrollVars, mouseVars>>
themeVars == <<theme, darkMode, checked, themeLog>>
vars == <<lifecycleVars, records, uncaught, nEvents, eventLog, timerVars, themeVars>>

Min(a, b) == IF a <= b THEN a ELSE b
Abs(a) == IF a < 0 THEN -a ELSE a

\* the indices of the records of one category
IndicesOf(ev) == {i \in 1..Len(records) : records[i].event = ev}
\* the dispatched events of one type, in dispatch order
EventsOf(type) == SelectSeq(eventLog, LAMBDA d : d.type = type)
\* the records of one category, in emission order
RECURSIVE SelectEvent(_, _)
SelectEvent(s, ev) ==
    IF s = <<>> THEN <<>>
    ELSE IF Head(s).event = ev THEN <<Head(s)>> \o SelectEvent(Tail(s), ev)
    ELSE SelectEvent(Tail(s), ev)

(* ------------------------------ lifecycle ------------------------------ *)
\* trackPageView: one PAGE_VIEW record
trackPageView == [event |-> "PAGE_VIEW"]

\* initializeTracker: PAGE_VIEW, then the eight setup* calls attach the listeners
initializeTracker ==
    /\ records' = Append(records, trackPageView)
    /\ initCount' = initCount + 1

\* the listeners exist once initializeTracker has run
attached == initCount >= 1

MutWaitsForReady(rs) == TRUE
\* line 8: the script defers initialization iff the document is still loading
WaitsForReady(rs) == rs = "loading"

\* what the page shows of the theme, and what is stored
ThemeState(dark, box, stored) == [dark |-> dark, checked |-> box, theme |-> stored]

\* lines 484-487: a stored 'dark' adds the class and checks the toggle
ThemeLoad ==
    /\ darkMode' = IF theme = "dark" THEN TRUE ELSE darkMode
    /\ checked' = IF theme = "dark" THEN TRUE ELSE checked
    /\ themeLog' = Append(themeLog, ThemeState(darkMode', checked', theme))
    /\ UNCHANGED theme

\* evaluation of the script: the IIFE with the readyState check and the export of
\* EventTracker, then the top-level statements after it, among them the theme's
RunScript ==
    /\ ~scriptRun
    /\ scriptRun' = TRUE
    /\ IF WaitsForReady(readyState)
       THEN /\ dclListener' = TRUE
            /\ UNCHANGED <<records, initCount>>
       ELSE /\ initializeTracker
            /\ UNCHANGED dclListener
    /\ exported' = TRUE
    /\ loadState' = readyState
    /\ ThemeLoad
    /\ UNCHANGED <<readyState, dclFired, uncaught, nEvents, eventLog, timerVars>>

\* the parser finishes: readyState leaves "loading"
ParseDone ==
    /\ readyState = "loading"
    /\ readyState' = "interactive"
    /\ UNCHANGED <<dclFired, scriptRun, dclListener, initCount, exported,
                   records, uncaught, nEvents, loadState, eventLog, timerVars, themeVars>>

\* the browser dispatches DOMContentLoaded, once, to the registered listener
DOMContentLoaded ==
    /\ readyState = "interactive"
    /\ ~dclFired
    /\ dclFired' = TRUE
    /\ IF dclListener
       THEN initializeTracker
       ELSE UNCHANGED <<records, initCount>>
    /\ UNCHANGED <<readyState, scriptRun, dclListener, exported, uncaught, nEvents,
                   loadState, eventLog, timerVars, themeVars>>

\* the load event: readyState becomes "complete"
LoadComplete ==
    /\ readyState = "interactive"
    /\ dclFired
    /\ readyState' = "complete"
    /\ UNCHANGED <<dclFired, scriptRun, dclListener, initCount, exported,
                   records, uncaught, nEvents, loadState, eventLog, timerVars, themeVars>>

InitLifecycle ==
    /\ readyState = "loading"
    /\ dclFired = FALSE
    /\ scriptRun = FALSE
    /\ dclListener = FALSE
    /\ initCount = 0
    /\ exported = FALSE
    /\ records = <<>>
    /\ uncaught = 0
    /\ nEvents = 0
    /\ loadState = "none"
    /\ eventLog = <<>>

(* ------------------------------ keyboard ------------------------------- *)
\* the keydown events of the model: key, code and modifier flags
KeyEvents ==
    { [key |-> "a", code |-> "KeyA", ctrlKey |-> FALSE, shiftKey |-> FALSE, altKey |-> FALSE],
      [key |-> "A", code |-> "KeyA", ctrlKey |-> FALSE, shiftKey |-> TRUE, altKey |-> FALSE],
      [key |-> "c", code |-> "KeyC", ctrlKey |-> TRUE, shiftKey |-> FALSE, altKey |-> TRUE] }
\* the targets of the model: their tagName and type property
KeyTargets ==
    { [tagName |-> "INPUT", type |-> "text"],
      [tagName |-> "INPUT", type |-> "password"],
      [tagName |-> "BODY", type |-> "undefined"] }

MutKeySuppressed(target) == target.tagName = "INPUT"
\* line 294: no record while typing in a password field
KeySuppressed(target) == target.type = "password"

\* lines 296-305: the KEYPRESS record
KeyData(e, target) ==
    [event |-> "KEYPRESS", key |-> e.key, code |-> e.code, ctrlKey |-> e.ctrlKey,
     shiftKey |-> e.shiftKey, altKey |-> e.altKey, targetElement |-> target.tagName]

\* the keydown listener
Keydown(e, target) ==
    /\ attached
    /\ nEvents < MaxEvents
    /\ nEvents' = nEvents + 1
    /\ eventLog' = Append(eventLog, [type |-> "keydown", e |-> e, target |-> target])
    /\ records' = IF KeySuppressed(target) THEN records
                  ELSE Append(records, KeyData(e, target))
    /\ UNCHANGED <<lifecycleVars, themeVars, uncaught, timerVars>>

(* ------------------------ visibility, exit, custom --------------------- *)
\* the visibilitychange listener: document.hidden at dispatch
VisibilityChange(hidden) ==
    /\ attached
    /\ nEvents < MaxEvents
    /\ nEvents' = nEvents + 1
    /\ records' = Append(records, [event |-> "VISIBILITY_CHANGE",
                                   state |-> IF hidden THEN "hidden" ELSE "visible"])
    /\ UNCHANGED <<lifecycleVars, themeVars, uncaught, eventLog, timerVars>>

\* the beforeunload listener: one PAGE_EXIT record per delivery
BeforeUnload ==
    /\ attached
    /\ nEvents < MaxEvents
    /\ nEvents' = nEvents + 1
    /\ eventLog' = Append(eventLog, [type |-> "beforeunload"])
    /\ records' = Append(records, [event |-> "PAGE_EXIT"])
    /\ UNCHANGED <<lifecycleVars, themeVars, uncaught, timerVars>>

CustomNames == {"signup", "purchase"}
CustomPayloads == {"p1", "p2"}
MutTrackCustomEvent(eventName, eventData) ==
    /\ exported
    /\ nEvents < MaxEvents
    /\ nEvents' = nEvents + 1
    /\ records' = Append(records, [event |-> "CUSTOM", name |-> eventName, data |-> eventData])
    /\ eventLog' = Append(eventLog, [type |-> "custom", name |-> eventName,
                                     data |-> eventData, returned |-> "undefined"])
    /\ timers' = {}
    /\ UNCHANGED <<lifecycleVars, themeVars, uncaught, inputVars, scrollVars, mouseVars>>
\* window.EventTracker.trackCustomEvent: the function body only logs, and ends
\* without a return statement, so the call evaluates to undefined
TrackCustomEvent(eventName, eventData) ==
    /\ exported
    /\ nEvents < MaxEvents
    /\ nEvents' = nEvents + 1
    /\ records' = Append(records, [event |-> "CUSTOM", name |-> eventName, data |-> eventData])
    /\ eventLog' = Append(eventLog, [type |-> "custom", name |-> eventName,
                                     data |-> eventData, returned |-> "undefined"])
    /\ UNCHANGED <<lifecycleVars, themeVars, uncaught, timerVars>>

(* ------------------------------ theme toggle --------------------------- *)
\* the items a visitor's localStorage may hold under 'theme'
StoredThemes == {"null", "dark", "light", "blue"}

MutToggleClass(present) == TRUE
\* line 479: classList.toggle removes the class if present, adds it if not
ToggleClass(present) == ~present

\* line 481
ThemeOf(dark) == IF dark THEN "dark" ELSE "light"

\* the user flips the toggle: the browser changes the checkbox and dispatches
\* 'change' to the listener of lines 478-482
ThemeChange ==
    /\ scriptRun
    /\ nEvents < MaxEvents
    /\ nEvents' = nEvents + 1
    /\ checked' = ~checked
    /\ darkMode' = ToggleClass(darkMode)
    /\ theme' = ThemeOf(darkMode')
    /\ themeLog' = Append(themeLog, ThemeState(darkMode', checked', theme'))
    /\ UNCHANGED <<lifecycleVars, records, uncaught, eventLog, timerVars>>

(* ------------------------------- the DOM ------------------------------- *)
ELEMENT_NODE == 1

\* the node objects of the page, by name; "null" is the null reference.
\* className is the class attribute as its tokens, " " standing for a run of
\* white space; id "" and className <<>> are the empty (falsy) strings.
Document ==
    [ document |-> [nodeType |-> 9, tagName |-> "undefined", id |-> "", className |-> <<>>,
                    type |-> "undefined", name |-> "", parentNode |-> "null",
                    childNodes |-> <<"doctype", "html">>],
      doctype  |-> [nodeType |-> 10, tagName |-> "undefined", id |-> "", className |-> <<>>,
                    type |-> "undefined", name |-> "html", parentNode |-> "document",
                    childNodes |-> <<>>],
      html     |-> [nodeType |-> 1, tagName |-> "HTML", id |-> "", className |-> <<>>,
                    type |-> "undefined", name |-> "", parentNode |-> "document",
                    childNodes |-> <<"body">>],
      body     |-> [nodeType |-> 1, tagName |-> "BODY", id |-> "", className |-> <<>>,
                    type |-> "undefined", name |-> "", parentNode |-> "html",
                    childNodes |-> <<"div1", "text1", "div2", "form", "panel">>],
      div1     |-> [nodeType |-> 1, tagName |-> "DIV", id |-> "", className |-> <<"box">>,
                    type |-> "undefined", name |-> "", parentNode |-> "body",
                    childNodes |-> <<>>],
      text1    |-> [nodeType |-> 3, tagName |-> "undefined", id |-> "", className |-> <<>>,
                    type |-> "undefined", name |-> "", parentNode |-> "body",
                    childNodes |-> <<>>],
      div2     |-> [nodeType |-> 1, tagName |-> "DIV", id |-> "", className |-> <<"box">>,
                    type |-> "undefined", name |-> "", parentNode |-> "body",
                    childNodes |-> <<>>],
      form     |-> [nodeType |-> 1, tagName |-> "FORM", id |-> "login", className |-> <<>>,
                    type |-> "undefined", name |-> "", parentNode |-> "body",
                    childNodes |-> <<"user", "pass">>],
      user     |-> [nodeType |-> 1, tagName |-> "INPUT", id |-> "",
                    className |-> <<" ", "field", " ", "wide">>,
                    type |-> "text", name |-> "username", parentNode |-> "form",
                    childNodes |-> <<>>],
      pass     |-> [nodeType |-> 1, tagName |-> "INPUT", id |-> "pw", className |-> <<>>,
                    type |-> "password", name |-> "password", parentNode |-> "form",
                    childNodes |-> <<>>],
      panel    |-> [nodeType |-> 1, tagName |-> "DIV", id |-> "panel",
                    className |-> <<"box">>,
                    type |-> "undefined", name |-> "", parentNode |-> "body",
                    childNodes |-> <<"item1", "item2">>],
      item1    |-> [nodeType |-> 1, tagName |-> "SPAN", id |-> "", className |-> <<>>,
                    type |-> "undefined", name |-> "", parentNode |-> "panel",
                    childNodes |-> <<>>],
      item2    |-> [nodeType |-> 1, tagName |-> "SPAN", id |-> "", className |-> <<"hot">>,
                    type |-> "undefined", name |-> "", parentNode |-> "panel",
                    childNodes |-> <<>>],
      orphan   |-> [nodeType |-> 1, tagName |-> "DIV", id |-> "", className |-> <<" ">>,
                    type |-> "undefined", name |-> "", parentNode |-> "null",
                    childNodes |-> <<"leaf", "lost">>],
      lost     |-> [nodeType |-> 1, tagName |-> "P", id |-> "lost", className |-> <<>>,
                    type |-> "undefined", name |-> "", parentNode |-> "orphan",
                    childNodes |-> <<>>],
      leaf     |-> [nodeType |-> 1, tagName |-> "SPAN", id |-> "", className |-> <<>>,
                    type |-> "undefined", name |-> "", parentNode |-> "orphan",
                    childNodes |-> <<>>] ]

Elements == {n \in DOMAIN Document : Document[n].nodeType = ELEMENT_NODE}
\* the elements that carry a value property
FormFields == {n \in Elements : Document[n].tagName \in {"INPUT", "TEXTAREA", "SELECT"}}

\* String.prototype.toLowerCase on the tag names of the page
TagToLowerCase(tag) ==
    CASE tag = "HTML" -> "html" [] tag = "BODY" -> "body" [] tag = "DIV" -> "div"
      [] tag = "FORM" -> "form" [] tag = "INPUT" -> "input" [] tag = "SPAN" -> "span"
      [] tag = "P" -> "p"
      [] OTHER -> tag

\* Array.prototype.join
RECURSIVE Join(_, _)
Join(parts, sep) ==
    IF parts = <<>> THEN ""
    ELSE IF Len(parts) = 1 THEN parts[1]
    ELSE parts[1] \o sep \o Join(Tail(parts), sep)

\* className.trim().split(/\s+/): the class names, or [""] for an all-blank string
SplitClasses(className) ==
    LET words == SelectSeq(className, LAMBDA t : t # " ")
    IN  IF words = <<>> THEN <<"">> ELSE words

\* lines 364-369: one step of the selector path
SelectorOf(el) ==
    TagToLowerCase(Document[el].tagName) \o
        (IF Document[el].className # <<>>
         THEN "." \o Join(SplitClasses(Document[el].className), ".")
         ELSE "")

\* lines 362-377: the ancestor walk, up to the first non-element parent
RECURSIVE SelectorPath(_)
SelectorPath(el) ==
    LET parent == Document[el].parentNode
    IN  IF parent = "null" \/ Document[parent].nodeType # ELEMENT_NODE
        THEN <<SelectorOf(el)>>
        ELSE SelectorPath(parent) \o <<SelectorOf(el)>>

MutGetCSSSelector(el) == Join(SelectorPath(el), " > ")
\* getCSSSelector: the id form, or the path from the topmost element ancestor
getCSSSelector(el) ==
    IF Document[el].id # "" THEN "#" \o Document[el].id
    ELSE Join(SelectorPath(el), " > ")

\* the outcome of a call: a returned string, or a TypeError thrown
Returns(str) == [throws |-> FALSE, value |-> str]
Throws == [throws |-> TRUE, value |-> "TypeError"]

MutSiblingIndex(el) == 0
\* lines 396-407: the number of same-tag element siblings before el
SiblingIndex(el) ==
    LET siblings == Document[Document[el].parentNode].childNodes
        pos == CHOOSE i \in 1..Len(siblings) : siblings[i] = el
    IN  Cardinality({j \in 1..(pos - 1) :
                        /\ Document[siblings[j]].nodeType = 1
                        /\ Document[siblings[j]].tagName = Document[el].tagName})

\* getXPath: reading childNodes of a null parentNode throws
RECURSIVE getXPath(_)
getXPath(el) ==
    IF Document[el].id # "" THEN Returns("//*[@id=\"" \o Document[el].id \o "\"]")
    ELSE IF el = "body" THEN Returns("/html/body")
    ELSE IF Document[el].parentNode = "null" THEN Throws
    ELSE LET up == getXPath(Document[el].parentNode)
         IN  IF up.throws THEN Throws
             ELSE Returns(up.value \o "/" \o TagToLowerCase(Document[el].tagName)
                              \o "[" \o ToString(SiblingIndex(el) + 1) \o "]")

\* x || 'N/A'
OrNA(x) == IF x = "" \/ x = "undefined" THEN NA ELSE x

\* element.value: the field's value, undefined on other elements
ValueOf(el) == IF el \in FormFields THEN value[el] ELSE "undefined"

\* lines 97-118: the CLICK record (text, position and computed styles left out)
ClickData(el, xpath) ==
    [event |-> "CLICK",
     element |-> [tagName |-> Document[el].tagName,
                  id |-> OrNA(Document[el].id),
                  className |-> IF Document[el].className = <<>> THEN <<NA>>
                                ELSE Document[el].className,
                  value |-> OrNA(ValueOf(el)),
                  type |-> OrNA(Document[el].type),
                  name |-> OrNA(Document[el].name)],
     cssSelector |-> getCSSSelector(el),
     xpath |-> xpath]

\* the click listener: the record is built, getXPath last, and then logged
Click(target) ==
    /\ attached
    /\ nEvents < MaxEvents
    /\ nEvents' = nEvents + 1
    /\ eventLog' = Append(eventLog, [type |-> "click", target |-> target,
                                      cssSelector |-> getCSSSelector(target),
                                      xpath |-> getXPath(target)])
    /\ LET xpath == getXPath(target)
       IN  IF xpath.throws
           THEN /\ uncaught' = uncaught + 1
                /\ UNCHANGED records
           ELSE /\ records' = Append(records, ClickData(target, xpath.value))
                /\ UNCHANGED uncaught
    /\ UNCHANGED <<lifecycleVars, themeVars, timerVars>>

(* ------------------------------ form submit ---------------------------- *)
\* field names as their characters
NameUsername == <<"u", "s", "e", "r", "n", "a", "m", "e">>
NamePassword == <<"p", "a", "s", "s", "w", "o", "r", "d">>
NamePassWord == <<"P", "a", "s", "s", "W", "o", "r", "d">>
NameMyPASSWORD == <<"m", "y", "P", "A", "S", "S", "W", "O", "R", "D", "2">>
NamePin == <<"p", "i", "n">>
NameTag == <<"t", "a", "g">>

\* the entries of new FormData(form), for the forms of the model
FormDatas ==
    { <<>>,
      << <<NameUsername, "alice">>, <<NamePassword, "secret">> >>,
      << <<NamePassWord, "hunter2">> >>,
      << <<NameMyPASSWORD, "secret">>, <<NamePin, "1234">> >>,
      << <<NameTag, "a">>, <<NameTag, "b">> >> }

\* String.prototype.toLowerCase, character by character
LowerChar(c) ==
    CASE c = "A" -> "a" [] c = "D" -> "d" [] c = "O" -> "o" [] c = "P" -> "p"
      [] c = "R" -> "r" [] c = "S" -> "s" [] c = "W" -> "w"
      [] OTHER -> c
ToLowerCase(str) == [i \in 1..Len(str) |-> LowerChar(str[i])]

\* String.prototype.includes
Includes(str, sub) ==
    \E i \in 1..(Len(str) - Len(sub) + 1) : SubSeq(str, i, i + Len(sub) - 1) = sub

MutIsPasswordKey(key) == Includes(key, NamePassword)
\* line 148
IsPasswordKey(key) == Includes(ToLowerCase(key), NamePassword)

\* lines 143-153: the entries folded into an object, a later key overwriting
RECURSIVE FormValues(_)
FormValues(entries) ==
    IF entries = <<>> THEN [k \in {} |-> ""]
    ELSE LET n == Len(entries)
             before == FormValues(SubSeq(entries, 1, n - 1))
             key == entries[n][1]
             val == IF IsPasswordKey(key) THEN MASKED ELSE entries[n][2]
         IN  [k \in DOMAIN before \cup {key} |-> IF k = key THEN val ELSE before[k]]

\* the submit listener
Submit(form, entries) ==
    /\ attached
    /\ nEvents < MaxEvents
    /\ nEvents' = nEvents + 1
    /\ eventLog' = Append(eventLog, [type |-> "submit", form |-> form, entries |-> entries])
    /\ records' = Append(records, [event |-> "FORM_SUBMIT",
                                   form |-> [id |-> OrNA(Document[form].id)],
                                   fields |-> FormValues(entries)])
    /\ UNCHANGED <<lifecycleVars, themeVars, uncaught, timerVars>>

(* ------------------------------- timeouts ------------------------------- *)
\* the event a timer callback closes over: its target and client position
Closure(target, pos) == [target |-> target, x |-> pos.x, y |-> pos.y]
NoPosition == [x |-> 0, y |-> 0]

\* the handle setTimeout returns: a fresh positive integer, never reused
NewHandle == nEvents + 1

MutClearTimeout(table, handle) == table
\* clearTimeout: the timeout with that handle, if any is pending, is dropped
ClearTimeout(table, handle) == {t \in table : t.id # handle}

\* setTimeout: a timeout of the given owner, delay and closure is added
SetTimeout(table, handle, owner, delay, ev) ==
    table \cup {[id |-> handle, cat |-> owner, remaining |-> delay, ev |-> ev]}

MutReschedule(held, owner, delay, ev) ==
    timers' = {[id |-> NewHandle, cat |-> owner, remaining |-> delay, ev |-> ev]}
\* clearTimeout(held); held = setTimeout(callback, delay)
Reschedule(held, owner, delay, ev) ==
    timers' = SetTimeout(ClearTimeout(timers, held), NewHandle, owner, delay, ev)

\* the pending timeouts of one listener, and those that are due
PendingOf(owner) == {t \in timers : t.cat = owner}
DueOf(owner) == {t \in timers : t.cat = owner /\ t.remaining = 0}

(* ------------------------------ input change --------------------------- *)
\* the elements input events are dispatched on: two form fields and an editable div
InputTargets == {"user", "pass", "div1"}
\* what the user's edit leaves in the field
InputValues == {"a", "ab"}

\* ages saturate one tick past the delay they are compared with
InputAgeCap == InputDelay + TickStep

\* line 191
IsTrackedField(el) == Document[el].tagName \in {"INPUT", "TEXTAREA", "SELECT"}

MutInputRecordValue(el) == value[el]
\* line 200
InputRecordValue(el) == IF Document[el].type = "password" THEN MASKED ELSE value[el]

\* lines 192-202: the INPUT_CHANGE record
InputData(el) ==
    [event |-> "INPUT_CHANGE",
     element |-> [tagName |-> Document[el].tagName,
                  type |-> OrNA(Document[el].type),
                  id |-> OrNA(Document[el].id),
                  name |-> OrNA(Document[el].name),
                  value |-> InputRecordValue(el)]]

\* the input listener: the user's edit has set the value; the one shared timer is
\* cleared and set again, closing over this event
InputEvent(el, v) ==
    /\ attached
    /\ nEvents < MaxEvents
    /\ nEvents' = nEvents + 1
    /\ value' = IF el \in FormFields THEN [value EXCEPT ![el] = v] ELSE value
    /\ Reschedule(inputTimeout, "input", InputDelay, Closure(el, NoPosition))
    /\ inputTimeout' = NewHandle
    /\ sinceInput' = 0
    /\ owedSince' = IF el \in FormFields THEN [owedSince EXCEPT ![el] = 0] ELSE owedSince
    /\ burst' = [field |-> IF burst.field = "null" THEN el ELSE burst.field,
                 ok    |-> IF burst.field = "null" THEN el \in FormFields
                           ELSE burst.ok /\ el = burst.field /\ sinceInput < InputDelay,
                 value |-> IF el \in FormFields THEN v ELSE "undefined"]
    /\ UNCHANGED <<lifecycleVars, themeVars, records, uncaught, eventLog, scrollVars, mouseVars>>

\* the timer callback of the input listener; the held handle is left as it is
FireInputTimeout ==
    \E t \in DueOf("input") :
        /\ timers' = timers \ {t}
        /\ LET el == t.ev.target
           IN  IF IsTrackedField(el)
               THEN /\ records' = Append(records, InputData(el))
                    /\ owedSince' = [owedSince EXCEPT ![el] = -1]
               ELSE UNCHANGED <<records, owedSince>>
        /\ UNCHANGED <<lifecycleVars, themeVars, uncaught, nEvents, eventLog, value, inputTimeout,
                       sinceInput, burst, scrollVars, mouseVars>>

(* --------------------------------- scroll ------------------------------- *)
\* the scrollable heights of the pages of the model (0: nothing to scroll)
ScrollHeights == {0, 50, 200}
\* the offsets the user scrolls to
ScrollTops == {0, 20, 21, 50, 80}

\* line 226: Math.round((scrollTop / scrollHeight) * 100); 0/0 is NaN
ScrollPercentage(top, height) ==
    IF height = 0 THEN [nan |-> TRUE, n |-> 0]
    ELSE [nan |-> FALSE, n |-> (200 * top + height) \div (2 * height)]

MutScrollSignificant(pct, last) == ~pct.nan /\ Abs(pct.n - last) >= ScrollThreshold
\* line 229: a comparison with NaN is false
ScrollSignificant(pct, last) == ~pct.nan /\ Abs(pct.n - last) > ScrollThreshold

\* line 237, evaluated after line 230 has overwritten lastScrollPosition
ScrollDirection(top, last) == IF top > last THEN "down" ELSE "up"

\* the scroll listener: the page has scrolled; the timer is cleared and set again
ScrollEvent(top) ==
    /\ attached
    /\ nEvents < MaxEvents
    /\ nEvents' = nEvents + 1
    /\ top <= scrollHeight
    /\ scrollTop' = top
    /\ Reschedule(scrollTimeout, "scroll", ScrollDelay, Closure("window", NoPosition))
    /\ scrollTimeout' = NewHandle
    /\ sinceScroll' = 0
    /\ UNCHANGED <<lifecycleVars, themeVars, records, uncaught, eventLog, inputVars, mouseVars,
                   scrollHeight, lastScrollPosition>>

\* the timer callback of the scroll listener
FireScrollTimeout ==
    \E t \in DueOf("scroll") :
        /\ timers' = timers \ {t}
        /\ LET scrollPercentage == ScrollPercentage(scrollTop, scrollHeight)
           IN  IF ScrollSignificant(scrollPercentage, lastScrollPosition)
               THEN /\ lastScrollPosition' = scrollPercentage.n
                    /\ records' = Append(records,
                           [event |-> "SCROLL", position |-> scrollTop,
                            percentage |-> scrollPercentage.n,
                            direction |-> ScrollDirection(scrollTop, lastScrollPosition')])
               ELSE UNCHANGED <<records, lastScrollPosition>>
        /\ UNCHANGED <<lifecycleVars, themeVars, uncaught, nEvents, eventLog, inputVars, mouseVars,
                       scrollHeight, scrollTop, scrollTimeout, sinceScroll>>

(* ------------------------------- mouse move ----------------------------- *)
\* the client positions the pointer is moved to
MousePositions ==
    { [x |-> 0, y |-> 0], [x |-> 60, y |-> 80], [x |-> 80, y |-> 80],
      [x |-> 101, y |-> 0], [x |-> 150, y |-> 150] }
\* event.target: the element under the pointer
ElementAt(pos) == IF pos.y >= 80 THEN "div1" ELSE "body"

MutMovedFar(pos, last) ==
    (pos.x - last.x) * (pos.x - last.x) + (pos.y - last.y) * (pos.y - last.y)
        >= MouseThreshold * MouseThreshold
\* lines 261-266: sqrt(dx^2 + dy^2) > 100, both sides squared
MovedFar(pos, last) ==
    (pos.x - last.x) * (pos.x - last.x) + (pos.y - last.y) * (pos.y - last.y)
        > MouseThreshold * MouseThreshold

\* the mousemove listener
MouseMove(pos) ==
    /\ attached
    /\ nEvents < MaxEvents
    /\ nEvents' = nEvents + 1
    /\ Reschedule(mouseTimeout, "mouse", MouseDelay, Closure(ElementAt(pos), pos))
    /\ mouseTimeout' = NewHandle
    /\ sinceMouse' = 0
    /\ lastMouseEvent' = pos
    /\ UNCHANGED <<lifecycleVars, themeVars, records, uncaught, eventLog, inputVars, scrollVars,
                   lastMousePosition>>

\* the timer callback of the mousemove listener
FireMouseTimeout ==
    \E t \in DueOf("mouse") :
        /\ timers' = timers \ {t}
        /\ LET pos == [x |-> t.ev.x, y |-> t.ev.y]
           IN  IF MovedFar(pos, lastMousePosition)
               THEN /\ lastMousePosition' = pos
                    /\ records' = Append(records,
                           [event |-> "MOUSE_MOVE", position |-> pos,
                            elementUnderCursor |-> Document[t.ev.target].tagName])
               ELSE UNCHANGED <<records, lastMousePosition>>
        /\ UNCHANGED <<lifecycleVars, themeVars, uncaught, nEvents, eventLog, inputVars, scrollVars,
                       mouseTimeout, sinceMouse, lastMouseEvent>>

(* --------------------------------- time --------------------------------- *)
\* the remaining delays of the pending timers
Pending == {t.remaining : t \in timers}

\* the time that passes in one step: a tick, or less when a timer comes due sooner
Advance ==
    IF Pending = {} THEN TickStep
    ELSE Min(TickStep, CHOOSE r \in Pending : \A q \in Pending : r <= q)

Elapse(timer, d) == [timer EXCEPT !.remaining = timer.remaining - d]

\* time passes; a due timer runs before time passes further
Tick ==
    /\ 0 \notin Pending
    /\ LET d == Advance
       IN  /\ timers' = {Elapse(t, d) : t \in timers}
           /\ sinceInput' = Min(sinceInput + d, InputAgeCap)
           /\ owedSince' = [f \in DOMAIN owedSince |->
                               IF owedSince[f] < 0 THEN owedSince[f]
                               ELSE Min(owedSince[f] + d, InputAgeCap)]
           /\ sinceScroll' = Min(sinceScroll + d, ScrollDelay)
           /\ sinceMouse' = Min(sinceMouse + d, MouseDelay)
    /\ UNCHANGED <<lifecycleVars, themeVars, records, uncaught, nEvents, eventLog, value, burst,
                   inputTimeout, scrollTimeout, mouseTimeout,
                   scrollHeight, scrollTop, lastScrollPosition,
                   lastMousePosition, lastMouseEvent>>

(* ---------------------------- specifications --------------------------- *)
\* the tracker's part of the start
InitTracker ==
    /\ InitLifecycle
    /\ value = [f \in FormFields |-> ""]
    /\ timers = {}
    /\ inputTimeout = 0
    /\ sinceInput = InputAgeCap
    /\ owedSince = [f \in FormFields |-> -1]
    /\ burst = [field |-> "null", ok |-> TRUE, value |-> "undefined"]
    /\ scrollHeight \in ScrollHeights
    /\ scrollTop = 0
    /\ scrollTimeout = 0
    /\ sinceScroll = ScrollDelay
    /\ lastScrollPosition = 0
    /\ mouseTimeout = 0
    /\ lastMousePosition = [x |-> 0, y |-> 0]
    /\ sinceMouse = MouseDelay
    /\ lastMouseEvent = [x |-> 0, y |-> 0]

\* a first visit: nothing stored, the markup without the class, the toggle unchecked
Init ==
    /\ InitTracker
    /\ theme = "null"
    /\ darkMode = FALSE
    /\ checked = FALSE
    /\ themeLog = <<>>

\* any visit: whatever is stored, and whatever the markup gives body and checkbox
InitTheme ==
    /\ InitTracker
    /\ scrollHeight = 200
    /\ theme \in StoredThemes
    /\ darkMode \in BOOLEAN
    /\ checked \in BOOLEAN
    /\ themeLog = <<>>

\* the start on a page that is taller than the window
InitTall == Init /\ scrollHeight = 200

Lifecycle == RunScript \/ ParseDone \/ DOMContentLoaded \/ LoadComplete

KeydownStep == \E e \in KeyEvents, t \in KeyTargets : Keydown(e, t)
VisibilityStep == \E h \in BOOLEAN : VisibilityChange(h)
CustomStep == \E n \in CustomNames, d \in CustomPayloads : TrackCustomEvent(n, d)
ClickStep == \E t \in Elements : Click(t)
SubmitStep == \E entries \in FormDatas : Submit("form", entries)
InputStep == \E el \in InputTargets, v \in InputValues : InputEvent(el, v)
ScrollStep == \E top \in ScrollTops : ScrollEvent(top)
MouseStep == \E pos \in MousePositions : MouseMove(pos)

\* the keyboard category
NextKey == Lifecycle \/ KeydownStep
SpecKey == Init /\ [][NextKey]_vars

\* page lifecycle: visibility, exit and the public entry point
NextPage == Lifecycle \/ VisibilityStep \/ BeforeUnload \/ CustomStep
SpecPage == Init /\ [][NextPage]_vars

\* the click category
NextClick == Lifecycle \/ ClickStep
SpecClick == Init /\ [][NextClick]_vars

\* the form-submit category
NextSubmit == Lifecycle \/ SubmitStep
SpecSubmit == Init /\ [][NextSubmit]_vars

\* the input-change category
NextInput == Lifecycle \/ InputStep \/ FireInputTimeout \/ Tick
SpecInput == Init /\ [][NextInput]_vars

\* the scroll category
NextScroll == Lifecycle \/ ScrollStep \/ FireScrollTimeout \/ Tick
SpecScroll == Init /\ [][NextScroll]_vars

\* the mouse-move category
NextMouse == Lifecycle \/ MouseStep \/ FireMouseTimeout \/ Tick
SpecMouse == Init /\ [][NextMouse]_vars

\* one representative event of each debounced category, for the specifications
\* in which the categories interleave
OneInput == InputEvent("user", "a")
OneScroll == ScrollEvent(21)
OneMouse == MouseMove([x |-> 150, y |-> 150])
OneCustom == TrackCustomEvent("signup", "p1")

\* the three debounced categories and the public function together
NextTimers ==
    \/ Lifecycle
    \/ OneInput \/ FireInputTimeout
    \/ OneScroll \/ FireScrollTimeout
    \/ OneMouse \/ FireMouseTimeout
    \/ OneCustom
    \/ Tick
SpecTimers == InitTall /\ [][NextTimers]_vars

\* one representative event of each category without a timer
OneClick == Click("user")
OneKeydown ==
    Keydown([key |-> "a", code |-> "KeyA", ctrlKey |-> FALSE, shiftKey |-> FALSE,
             altKey |-> FALSE],
            [tagName |-> "INPUT", type |-> "text"])
OneSubmit == Submit("form", << <<NameUsername, "alice">>, <<NamePassword, "secret">> >>)
OneVisibility == VisibilityChange(TRUE)

\* the eight categories together, up to the end of parsing
NextAll ==
    \/ RunScript \/ ParseDone \/ DOMContentLoaded
    \/ OneInput \/ FireInputTimeout
    \/ OneScroll \/ FireScrollTimeout
    \/ OneMouse \/ FireMouseTimeout
    \/ OneClick \/ OneKeydown \/ OneSubmit \/ OneVisibility \/ BeforeUnload
    \/ Tick
SpecAll == InitTall /\ [][NextAll]_vars

\* typing into, clicking on, pressing keys in and submitting the login form
NextPrivacy ==
    \/ Lifecycle
    \/ \E el \in {"user", "pass"} : InputEvent(el, "ab")
    \/ FireInputTimeout
    \/ \E el \in {"user", "pass"} : Click(el)
    \/ \E t \in KeyTargets : Keydown([key |-> "a", code |-> "KeyA", ctrlKey |-> FALSE,
                                       shiftKey |-> FALSE, altKey |-> FALSE], t)
    \/ \E entries \in {<< <<NameUsername, "alice">>, <<NamePassword, "secret">> >>,
                        << <<NameMyPASSWORD, "secret">>, <<NamePin, "1234">> >>} :
          Submit("form", entries)
    \/ Tick
SpecPrivacy == InitTall /\ [][NextPrivacy]_vars

\* the locators, on the page of one height, up to the end of parsing
NextLocate == RunScript \/ ParseDone \/ DOMContentLoaded \/ ClickStep
SpecLocate == InitTall /\ [][NextLocate]_vars

\* the theme toggle
NextTheme == Lifecycle \/ ThemeChange
SpecTheme == InitTheme /\ [][NextTheme]_vars

\* the whole tracker
Next ==
    \/ Lifecycle
    \/ KeydownStep \/ VisibilityStep \/ BeforeUnload \/ CustomStep
    \/ ClickStep \/ SubmitStep
    \/ InputStep \/ FireInputTimeout
    \/ ScrollStep \/ FireScrollTimeout
    \/ MouseStep \/ FireMouseTimeout
    \/ ThemeChange
    \/ Tick
Spec == Init /\ [][Next]_vars

(* -------------------------------- claims -------------------------------- *)
InputChanges == SelectEvent(records, "INPUT_CHANGE")
ScrollRecords == SelectEvent(records, "SCROLL")
Keypresses == SelectEvent(records, "KEYPRESS")

\* the input events so far form one burst on one form field, less than
\* InputDelay apart
OneBurst == burst.field # "null" /\ burst.ok

\* exactly one record, not before InputDelay has passed since the last event
BurstYieldsOne ==
    /\ Len(InputChanges) <= 1
    /\ (PendingOf("input") = {} => Len(InputChanges) = 1)
    /\ (sinceInput > InputDelay => Len(InputChanges) = 1)
    /\ (Len(InputChanges) = 1 =>
            /\ sinceInput >= InputDelay
            /\ InputChanges[1].element.name = Document[burst.field].name)

\* C1 as stated: a burst of N >= 1 input events on one field, each less than 500
\* after the one before, yields exactly one INPUT_CHANGE record, emitted no sooner
\* than 500 after the last event, and carrying the field's value as of the last event.
C1_DebounceCarriesValue ==
    OneBurst =>
        /\ BurstYieldsOne
        /\ (Len(InputChanges) = 1 => InputChanges[1].element.value = burst.value)

\* C1 amended: as above, but the record of a password-type field carries the
\* mask token instead of the value.
C1_DebounceCarriesValueOrMask ==
    OneBurst =>
        /\ BurstYieldsOne
        /\ (Len(InputChanges) = 1 =>
                InputChanges[1].element.value =
                    IF Document[burst.field].type = "password" THEN MASKED ELSE burst.value)

\* a burst of three events has produced its single record
C1_Witness ==
    /\ OneBurst
    /\ nEvents >= 3
    /\ Len(InputChanges) = 1
    /\ burst.value = "ab"

\* the name contains "password" in some letter case
NamesPassword(name) ==
    \E k \in 1..(Len(name) - 7) : ToLowerCase(SubSeq(name, k, k + 7)) = NamePassword

\* C2 as stated: in every FORM_SUBMIT record, each submitted field whose name
\* contains "password" in any letter case maps to the mask token, and each other
\* submitted field maps to the value it was submitted with.
C2_MaskingLaw ==
    LET submits == EventsOf("submit")
        emitted == SelectEvent(records, "FORM_SUBMIT")
    IN  /\ Len(emitted) = Len(submits)
        /\ \A s \in 1..Len(submits) : \A i \in 1..Len(submits[s].entries) :
              LET name == submits[s].entries[i][1]
                  val == submits[s].entries[i][2]
              IN  /\ name \in DOMAIN emitted[s].fields
                  /\ emitted[s].fields[name] = IF NamesPassword(name) THEN MASKED ELSE val

\* C2 amended: the fields map has exactly the submitted names; a name containing
\* "password" in any letter case maps to the mask token, and any other name maps
\* to the value of the last field submitted under that name.
C2_MaskingLawLastWins ==
    LET submits == EventsOf("submit")
        emitted == SelectEvent(records, "FORM_SUBMIT")
    IN  /\ Len(emitted) = Len(submits)
        /\ \A s \in 1..Len(submits) :
              LET entries == submits[s].entries
                  fields == emitted[s].fields
              IN  /\ DOMAIN fields = {entries[i][1] : i \in 1..Len(entries)}
                  /\ \A i \in 1..Len(entries) :
                        LET name == entries[i][1]
                        IN  IF NamesPassword(name) THEN fields[name] = MASKED
                            ELSE (\A j \in (i + 1)..Len(entries) : entries[j][1] # name)
                                    => fields[name] = entries[i][2]

\* a mixed-case password name was masked next to a field that was not, and a
\* form with a repeated name was submitted
C2_Witness ==
    LET emitted == SelectEvent(records, "FORM_SUBMIT")
    IN  /\ \E s \in 1..Len(emitted) :
              /\ DOMAIN emitted[s].fields = {NameMyPASSWORD, NamePin}
              /\ emitted[s].fields[NameMyPASSWORD] = MASKED
              /\ emitted[s].fields[NamePin] = "1234"
        /\ \E s \in 1..Len(emitted) : NameTag \in DOMAIN emitted[s].fields

\* C3: no click raises an error out of the listener, and every click, whatever
\* its target, yields its CLICK record.
C3_ClickNeverThrows ==
    /\ uncaught = 0
    /\ Len(SelectEvent(records, "CLICK")) = Len(EventsOf("click"))

\* C4 as stated: no two SCROLL records, however far apart in the run, have
\* rounded percentages that differ by 10 or less.
C4_NoTwoRecordsWithin10 ==
    \A i \in 1..Len(ScrollRecords) : \A j \in 1..Len(ScrollRecords) :
        i # j => Abs(ScrollRecords[i].percentage - ScrollRecords[j].percentage) > 10

\* C4 amended: each SCROLL record differs by more than 10 points from the SCROLL
\* record emitted just before it (from 0 for the first one).
C4_ConsecutiveRecordsDiffer ==
    \A i \in 1..Len(ScrollRecords) :
        Abs(ScrollRecords[i].percentage
              - (IF i = 1 THEN 0 ELSE ScrollRecords[i - 1].percentage)) > 10

\* three records, the first and the third at the same percentage
C4_Witness ==
    /\ Len(ScrollRecords) = 3
    /\ ScrollRecords[1].percentage = ScrollRecords[3].percentage

\* C5: a form field that received an input event and none since for 500 time
\* units has had its INPUT_CHANGE record emitted, whatever was typed elsewhere.
C5_EveryFieldRecorded ==
    \A f \in FormFields : owedSince[f] <= InputDelay

\* C6: every SCROLL record that follows another one reports "down" exactly when
\* its scroll position is greater than the position of the record before it.
C6_DirectionAgainstPrevious ==
    \A i \in 2..Len(ScrollRecords) :
        ScrollRecords[i].direction =
            IF ScrollRecords[i].position > ScrollRecords[i - 1].position
            THEN "down" ELSE "up"

\* C7: the KEYPRESS records are, in order, the keydown events whose target is not
\* a password field, each with its key, code and ctrl/shift/alt flags; a keydown on
\* a password field leaves no record.
C7_KeypressPerKeydown ==
    LET wanted == SelectSeq(EventsOf("keydown"), LAMBDA d : d.target.type # "password")
    IN  /\ Len(Keypresses) = Len(wanted)
        /\ \A i \in 1..Len(wanted) :
              /\ Keypresses[i].key = wanted[i].e.key
              /\ Keypresses[i].code = wanted[i].e.code
              /\ Keypresses[i].ctrlKey = wanted[i].e.ctrlKey
              /\ Keypresses[i].shiftKey = wanted[i].e.shiftKey
              /\ Keypresses[i].altKey = wanted[i].e.altKey

\* keydowns on a text field and on a password field have been dispatched
C7_Witness ==
    /\ Len(Keypresses) >= 2
    /\ Len(EventsOf("keydown")) > Len(Keypresses)
    /\ \E i \in 1..Len(Keypresses) : Keypresses[i].ctrlKey

\* C8: initializeTracker runs exactly once: at script evaluation if the document
\* is past loading, otherwise at DOMContentLoaded; there is never more than one
\* PAGE_VIEW record, and it precedes every record of an attached listener.
C8_InitializedOnce ==
    /\ initCount <= 1
    /\ Cardinality(IndicesOf("PAGE_VIEW")) = initCount
    /\ (~scriptRun => initCount = 0)
    /\ (scriptRun => (initCount = 1 <=> (loadState # "loading" \/ dclFired)))
    /\ \A i \in 1..Len(records) :
          records[i].event \notin {"PAGE_VIEW", "CUSTOM"} =>
              \E j \in 1..(i - 1) : records[j].event = "PAGE_VIEW"

\* loaded while loading, initialized at DOMContentLoaded, a listener has recorded
C8_Witness ==
    /\ loadState = "loading"
    /\ initCount = 1
    /\ IndicesOf("VISIBILITY_CHANGE") # {}

\* C9: at most one PAGE_EXIT record is ever emitted, and one is emitted once the
\* beforeunload signal has been delivered.
C9_PageExitOnce ==
    Cardinality(IndicesOf("PAGE_EXIT")) = IF Len(EventsOf("beforeunload")) >= 1 THEN 1 ELSE 0

\* C10: a step emits a MOUSE_MOVE record only when MouseDelay has passed since the
\* last mousemove event and that event's position is more than 100 from the last
\* recorded position; the record carries that position, which becomes the last
\* recorded position; and the last recorded position changes in no other step.
C10_MouseGate ==
    [][ LET emitted == /\ Len(records') = Len(records) + 1
                       /\ records'[Len(records')].event = "MOUSE_MOVE"
            dx == lastMouseEvent.x - lastMousePosition.x
            dy == lastMouseEvent.y - lastMousePosition.y
        IN  /\ emitted =>
                 /\ sinceMouse >= 1000
                 /\ dx * dx + dy * dy > 100 * 100
                 /\ records'[Len(records')].position = lastMouseEvent
                 /\ lastMousePosition' = lastMouseEvent
            /\ lastMousePosition' # lastMousePosition => emitted
      ]_vars

\* one move was recorded, a later one, too close to it, was not
C10_Witness ==
    /\ IndicesOf("MOUSE_MOVE") # {}
    /\ PendingOf("mouse") = {}
    /\ lastMouseEvent # lastMousePosition
    /\ lastMousePosition # [x |-> 0, y |-> 0]

Clicks == EventsOf("click")
ClickRecords == SelectEvent(records, "CLICK")

\* C11: every click, whatever its target, emits exactly one CLICK record, whose
\* element descriptor has the target's tag name, and its id and class, or 'N/A'
\* where the id or the class is empty.
C11_ClickDescriptor ==
    /\ Len(ClickRecords) = Len(Clicks)
    /\ \A i \in 1..Len(Clicks) :
          LET node == Document[Clicks[i].target]
          IN  /\ ClickRecords[i].element.tagName = node.tagName
              /\ ClickRecords[i].element.id = (IF node.id = "" THEN "N/A" ELSE node.id)
              /\ ClickRecords[i].element.className =
                    (IF node.className = <<>> THEN <<"N/A">> ELSE node.className)

\* C12: for every clicked element with a non-empty id, getCSSSelector returned
\* '#' followed by the id and getXPath returned //*[@id="<id>"], and the CLICK
\* record of such an element carries both.
C12_IdPreferred ==
    /\ \A i \in 1..Len(Clicks) :
          LET id == Document[Clicks[i].target].id
          IN  id # "" =>
                 /\ Clicks[i].cssSelector = "#" \o id
                 /\ ~Clicks[i].xpath.throws
                 /\ Clicks[i].xpath.value = "//*[@id=\"" \o id \o "\"]"
    /\ \A i \in 1..Len(ClickRecords) :
          LET id == ClickRecords[i].element.id
          IN  id # "N/A" =>
                 /\ ClickRecords[i].cssSelector = "#" \o id
                 /\ ClickRecords[i].xpath = "//*[@id=\"" \o id \o "\"]"

\* elements with an id were clicked: one with a class among same-tag siblings,
\* one inside a form, one in a detached subtree
C12_Witness ==
    /\ {"panel", "pass", "lost"} \subseteq {Clicks[i].target : i \in 1..Len(Clicks)}
    /\ Len(ClickRecords) >= 3

\* C13: any two distinct clicked elements that have no id got different
\* selectors from getCSSSelector.
C13_SelectorsDistinct ==
    \A i \in 1..Len(Clicks) : \A j \in 1..Len(Clicks) :
        (/\ Clicks[i].target # Clicks[j].target
         /\ Document[Clicks[i].target].id = ""
         /\ Document[Clicks[j].target].id = "")
            => Clicks[i].cssSelector # Clicks[j].cssSelector

\* body and its descendants
RECURSIVE UnderBody(_)
UnderBody(el) ==
    IF el = "body" THEN TRUE
    ELSE IF Document[el].parentNode = "null" THEN FALSE
    ELSE UnderBody(Document[el].parentNode)

\* C17: for any two distinct clicked elements that are body or below it, getXPath
\* returned, and returned two different strings; same-tag siblings are told apart
\* by their 1-based index among the same-tag element siblings.
C17_XPathInjective ==
    /\ \A i \in 1..Len(Clicks) :
          UnderBody(Clicks[i].target) =>
             /\ ~Clicks[i].xpath.throws
             /\ (Clicks[i].target = "div1" => Clicks[i].xpath.value = "/html/body/div[1]")
             /\ (Clicks[i].target = "div2" => Clicks[i].xpath.value = "/html/body/div[2]")
             /\ (Clicks[i].target = "item2" =>
                    Clicks[i].xpath.value = "//*[@id=\"panel\"]/span[2]")
    /\ \A i \in 1..Len(Clicks) : \A j \in 1..Len(Clicks) :
          (/\ Clicks[i].target # Clicks[j].target
           /\ UnderBody(Clicks[i].target)
           /\ UnderBody(Clicks[j].target))
              => Clicks[i].xpath.value # Clicks[j].xpath.value

\* same-tag siblings, with a text node between them, and nested ones were clicked
C17_Witness ==
    /\ {"div1", "div2", "item1", "item2"} = {Clicks[i].target : i \in 1..Len(Clicks)}
    /\ Len(ClickRecords) = 4

\* a step in which the scroll timer runs its callback
ScrollTimerFires == DueOf("scroll") # {} /\ PendingOf("scroll")' = {}

\* C19: the stored last scroll percentage is the percentage of the latest SCROLL
\* record, or 0 when there is none; a step emits a SCROLL record exactly when it
\* is the scroll timer firing, 200 units after the last scroll event, with the
\* current rounded percentage more than 10 away from the stored value; hence the
\* first record is never at 10% or less.
C19_ScrollBaseline ==
    /\ [](lastScrollPosition =
             IF ScrollRecords = <<>> THEN 0
             ELSE ScrollRecords[Len(ScrollRecords)].percentage)
    /\ [](ScrollRecords # <<>> => ScrollRecords[1].percentage > 10)
    /\ [][ /\ Len(ScrollRecords') \in {Len(ScrollRecords), Len(ScrollRecords) + 1}
           /\ ScrollTimerFires => sinceScroll = 200
           /\ (Len(ScrollRecords') = Len(ScrollRecords) + 1)
                 <=> /\ ScrollTimerFires
                     /\ scrollHeight # 0
                     /\ LET pct == (200 * scrollTop + scrollHeight) \div (2 * scrollHeight)
                        IN  \/ pct - lastScrollPosition > 10
                            \/ lastScrollPosition - pct > 10 ]_vars

\* one record at 11%, then the page came to rest at 10%: no second record, and
\* the stored value is still 11
C19_Witness ==
    /\ Len(ScrollRecords) = 1
    /\ ScrollRecords[1].percentage = 11
    /\ lastScrollPosition = 11
    /\ scrollHeight = 200
    /\ scrollTop = 20
    /\ scrollTimeout >= 2
    /\ PendingOf("scroll") = {}

\* C20: whenever window.EventTracker.initialized reads true, initializeTracker
\* has run (the PAGE_VIEW record is emitted and the listeners are attached), and
\* every CUSTOM record comes after the PAGE_VIEW record.
C20_InitializedMeansRun ==
    /\ exported => (initCount >= 1 /\ attached /\ IndicesOf("PAGE_VIEW") # {})
    /\ \A i \in IndicesOf("CUSTOM") : \E j \in IndicesOf("PAGE_VIEW") : j < i

CustomCalls == EventsOf("custom")
CustomRecords == SelectEvent(records, "CUSTOM")

\* C14: the CUSTOM records are, in order, the calls of trackCustomEvent, each with
\* the name and the payload of its call; every call returned undefined; and a
\* step that is such a call appends that one record and leaves every timer, every
\* held timer handle, the last scroll percentage and the last mouse position as
\* they were.
C14_CustomEventFrame ==
    /\ [](/\ Len(CustomRecords) = Len(CustomCalls)
          /\ \A i \in 1..Len(CustomCalls) :
                /\ CustomRecords[i].name = CustomCalls[i].name
                /\ CustomRecords[i].data = CustomCalls[i].data
                /\ CustomCalls[i].returned = "undefined")
    /\ [][Len(CustomCalls') # Len(CustomCalls) =>
             /\ Len(CustomCalls') = Len(CustomCalls) + 1
             /\ Len(records') = Len(records) + 1
             /\ SubSeq(records', 1, Len(records)) = records
             /\ records'[Len(records')].event = "CUSTOM"
             /\ UNCHANGED <<timers, inputTimeout, scrollTimeout, mouseTimeout,
                            lastScrollPosition, lastMousePosition>>]_vars

\* the call was made while a timer of each debounced category was pending, and
\* the three timers are still pending
C14_Witness ==
    /\ nEvents = 4
    /\ Len(CustomRecords) = 1
    /\ {inputTimeout, scrollTimeout, mouseTimeout} = {1, 2, 3}
    /\ Cardinality(timers) = 3

Categories == {"input", "scroll", "mouse"}
\* the handle each listener's closure holds, and the delay it asks for
Held(c) == CASE c = "input" -> inputTimeout
             [] c = "scroll" -> scrollTimeout
             [] c = "mouse" -> mouseTimeout
DelayOf(c) == CASE c = "input" -> 500
               [] c = "scroll" -> 200
               [] c = "mouse" -> 1000
RecordsOf(c) == CASE c = "input" -> SelectEvent(records, "INPUT_CHANGE")
                 [] c = "scroll" -> SelectEvent(records, "SCROLL")
                 [] c = "mouse" -> SelectEvent(records, "MOUSE_MOVE")

\* C15: each debounced category has at most one pending timer, the one whose
\* handle its listener holds; an event of the category leaves exactly the newly
\* scheduled timer pending for it, with the full delay, so a timer that was
\* pending is cancelled; and a record of the category is emitted only by the
\* callback of the timer scheduled last.
C15_OnePendingTimer ==
    /\ [](\A c \in Categories :
             /\ Cardinality(PendingOf(c)) <= 1
             /\ \A t \in PendingOf(c) : t.id = Held(c))
    /\ [][\A c \in Categories :
             /\ Held(c)' # Held(c) =>
                   /\ Cardinality(PendingOf(c)') = 1
                   /\ \A t \in PendingOf(c)' :
                         t.id = Held(c)' /\ t.id # Held(c) /\ t.remaining = DelayOf(c)
             /\ Len(RecordsOf(c)') # Len(RecordsOf(c)) =>
                   /\ Held(c)' = Held(c)
                   /\ PendingOf(c)' = {}
                   /\ \E t \in PendingOf(c) : t.id = Held(c) /\ t.remaining = 0]_vars

\* two input events and nothing else; the timer of the first was cancelled while
\* pending, the timer of the second has run: one record
C15_Witness ==
    /\ nEvents = 2
    /\ inputTimeout = 2
    /\ scrollTimeout = 0
    /\ mouseTimeout = 0
    /\ CustomRecords = <<>>
    /\ Len(RecordsOf("input")) = 1
    /\ timers = {}

\* the record type of a debounced category
TypeOf(c) == CASE c = "input" -> "INPUT_CHANGE"
              [] c = "scroll" -> "SCROLL"
              [] c = "mouse" -> "MOUSE_MOVE"

\* a step is an event of category c when c's listener takes a new handle, and a
\* firing of c when a due timer of c is no longer pending
EventOf(c) == Held(c)' # Held(c)
FiringOf(c) == \E t \in timers : t.cat = c /\ t.remaining = 0 /\ \A u \in timers' : u.id # t.id

\* what a step that is neither an event nor a firing of c leaves alone: c's
\* pending timer stays pending under the same handle, and is not touched at all
\* when the step dispatches an event; c's held handle and c's records stay
Untouched(c) ==
    /\ Held(c)' = Held(c)
    /\ \A t \in timers : t.cat = c =>
          \E u \in timers' : /\ u.id = t.id
                             /\ u.cat = c
                             /\ u.ev = t.ev
                             /\ u.remaining <= t.remaining
                             /\ nEvents' # nEvents => u.remaining = t.remaining
    /\ \A u \in timers' : u.cat = c => \E t \in timers : t.id = u.id
    /\ Len(records') > Len(records) => records'[Len(records')].event # TypeOf(c)

C18_NoPasswordInRecords ==
    /\ \A i \in 1..Len(records) :
          (/\ records[i].event \in {"CLICK", "INPUT_CHANGE"}
           /\ records[i].element.type = "password")
              => records[i].element.value \in {"N/A", "***MASKED***"}
    /\ Len(Keypresses) <=
          Len(SelectSeq(EventsOf("keydown"), LAMBDA d : d.target.type # "password"))

\* the page load left the class and the checkbox in step with the stored theme
ConsistentLoad ==
    /\ themeLog # <<>>
    /\ themeLog[1].checked = themeLog[1].dark
    /\ themeLog[1].dark = (themeLog[1].theme = "dark")

\* C21: when the page load left the body with the dark-mode class, and the
\* checkbox checked, exactly when the stored theme is 'dark', then after every
\* change of the toggle the stored theme is 'dark' if the class is present and
\* 'light' if not, the checkbox is checked exactly when the class is present, and
\* two further changes bring back the same class, checkbox and stored theme.
C21_ThemeConsistent ==
    ConsistentLoad =>
        /\ theme = themeLog[Len(themeLog)].theme
        /\ darkMode = themeLog[Len(themeLog)].dark
        /\ checked = themeLog[Len(themeLog)].checked
        /\ \A i \in 2..Len(themeLog) :
              /\ themeLog[i].theme = (IF themeLog[i].dark THEN "dark" ELSE "light")
              /\ themeLog[i].checked = themeLog[i].dark
              /\ themeLog[i].dark # themeLog[i - 1].dark
              /\ i + 2 <= Len(themeLog) => themeLog[i + 2] = themeLog[i]

\* a first visit with nothing stored, then three changes of the toggle: dark,
\* light, dark
C21_Witness ==
    /\ Len(themeLog) = 4
    /\ themeLog[1] = [dark |-> FALSE, checked |-> FALSE, theme |-> "null"]
    /\ themeLog[3].theme = "light"
    /\ theme = "dark"
    /\ darkMode
    /\ checked
====
